---- MODULE Spec2Model ----
(***************************************************************************)
(* A model of roku-pkg-cli: the subnet probe and the discovery merge of    *)
(* RokuDiscovery, executeTask of utils/vscode-tasks, the generate pipeline *)
(* of commands/generate with its device selection, ConfigManager with the  *)
(* add, edit and remove commands, and getBuildDirectory.  Each component   *)
(* has its own specification; the variables of the others stay idle.       *)
(***************************************************************************)
EXTENDS Integers, Sequences, FiniteSets, TLC

VARIABLES scan, task, gen, disc, sel, bdir, cm

vars == <<scan, task, gen, disc, sel, bdir, cm>>

Min(a, b) == IF a < b THEN a ELSE b

\* s.includes(w): the text s, a sequence of tokens, contains the token w
Includes(s, w) == \E k \in 1..Len(s) : s[k] = w

(***************************************************************************)
(* Bounds of the model                                                     *)
(***************************************************************************)
\* own-interface prefixes that are not already among the fixed ranges
MaxOwnRanges == 1

\* multicast replies handled in one discovery run
MaxReplies == 2

(***************************************************************************)
(* RokuDiscovery.discoverViaNetworkScan: the requests of the subnet probe  *)
(***************************************************************************)
\* the fixed private ranges of getNetworkRanges
FixedRanges == 5

\* host suffixes 1..254 of every range
HostsPerRange == 254

chunkSize == 50

\* the fixed private ranges, in the order of the array literal
CommonRanges ==
    << <<"192", "168", "1">>, <<"192", "168", "0">>, <<"10", "0", "0">>,
       <<"10", "0", "1">>, <<"172", "16", "0">> >>

\* addresses os.networkInterfaces() can report, the address as split('.')
\* yields it: the loopback, one in a fixed range, two in ranges of their
\* own, an IPv6 address
NetAddresses ==
    { [family |-> "IPv4", internal |-> TRUE,
       address |-> <<"127", "0", "0", "1">>],
      [family |-> "IPv4", internal |-> FALSE,
       address |-> <<"192", "168", "0", "7">>],
      [family |-> "IPv4", internal |-> FALSE,
       address |-> <<"192", "168", "50", "4">>],
      [family |-> "IPv4", internal |-> FALSE,
       address |-> <<"10", "1", "2", "3">>],
      [family |-> "IPv6", internal |-> FALSE, address |-> <<"fe80::1">>] }

\* the addresses of the machine in the order the loops visit them: up to
\* two, each once
InterfaceLists ==
    {nets \in UNION {[1..n -> NetAddresses] : n \in 0..2} :
        \A i, j \in 1..Len(nets) : nets[i] = nets[j] => i = j}

\* ranges.includes(networkBase)
RangesInclude(ranges, networkBase) ==
    \E k \in 1..Len(ranges) : ranges[k] = networkBase

\* the loops over the interfaces: the prefix of an external IPv4 address
\* that is not yet among the ranges is unshifted
RECURSIVE AddOwnRanges(_, _)
AddOwnRanges(ranges, nets) ==
    IF nets = <<>> THEN ranges
    ELSE LET net == Head(nets)
             parts == net.address
             networkBase == SubSeq(parts, 1, 3)
         IN AddOwnRanges(
                IF /\ net.family = "IPv4"
                   /\ ~net.internal
                   /\ Len(parts) = 4
                   /\ ~RangesInclude(ranges, networkBase)
                THEN <<networkBase>> \o ranges
                ELSE ranges,
                Tail(nets))

\* getNetworkRanges()
getNetworkRanges(nets) == AddOwnRanges(CommonRanges, nets)

ScanIdle ==
    [pc |-> "idle", ranges |-> 0, issued |-> 0, settled |-> 0, i |-> 0,
     interfaces |-> <<>>, networkRanges |-> <<>>]

\* checkPromises.length once the enumeration loop has ended
ScanTotal == scan.ranges * HostsPerRange

\* requests whose axios.get has been called and has not settled
ScanOutstanding == scan.issued - scan.settled

\* getNetworkRanges: the fixed ranges, with each new own prefix unshifted
ScanInit ==
    \E interfaces \in InterfaceLists :
        LET networkRanges == getNetworkRanges(interfaces)
        IN /\ Len(networkRanges) <= FixedRanges + MaxOwnRanges
           /\ scan = [pc |-> "enumerate", ranges |-> Len(networkRanges),
                      issued |-> 0, settled |-> 0, i |-> 0,
                      interfaces |-> interfaces,
                      networkRanges |-> networkRanges]

\* checkPromises.push(this.checkIfRokuDevice(ip)): the call runs up to its
\* await, so the request is issued by the push itself
ScanPush ==
    /\ scan.pc = "enumerate"
    /\ scan.issued < ScanTotal
    /\ scan' = [scan EXCEPT !.issued = @ + 1]
    /\ UNCHANGED <<task, gen, disc, sel, bdir, cm>>

\* the enumeration loop ends; the chunk loop starts at i = 0
ScanFirstChunk ==
    /\ scan.pc = "enumerate"
    /\ scan.issued = ScanTotal
    /\ scan' = [scan EXCEPT !.pc = "await"]
    /\ UNCHANGED <<task, gen, disc, sel, bdir, cm>>

\* one request settles (a response, a refusal or the 2 s timeout); which one
\* is not recorded: the chunks before i are settled, the others in any order
ScanSettle ==
    /\ scan.pc = "await"
    /\ scan.settled < scan.issued
    /\ scan' = [scan EXCEPT !.settled = @ + 1]
    /\ UNCHANGED <<task, gen, disc, sel, bdir, cm>>

\* await Promise.allSettled(chunk) returns: every request of
\* checkPromises[i .. i+chunkSize) has settled
ScanChunkSettled ==
    /\ scan.pc = "await"
    /\ scan.i < ScanTotal
    /\ scan.settled >= Min(scan.i + chunkSize, ScanTotal)
    /\ scan' = [scan EXCEPT !.i = @ + chunkSize,
                            !.pc = IF scan.i + chunkSize >= ScanTotal
                                   THEN "done" ELSE "await"]
    /\ UNCHANGED <<task, gen, disc, sel, bdir, cm>>

ScanNext == ScanPush \/ ScanFirstChunk \/ ScanSettle \/ ScanChunkSettled

(***************************************************************************)
(* executeTask (utils/vscode-tasks.ts)                                     *)
(***************************************************************************)
\* task labels, as token sequences; a label may itself hold any text
TaskLabels == {<<"build">>, <<"retry", "timed out", "jobs">>}

\* the exit codes a child ends with by itself; the code of the close event
\* is <<n>> for an exit code n and <<>> for null (ended by a signal)
ExitCodes == {0, 1}

TaskIdle ==
    [pc |-> "idle", label |-> <<>>, hasCommand |-> FALSE, timeout |-> FALSE,
     ignoresTerm |-> FALSE, child |-> "none", killed |-> FALSE,
     code |-> <<>>, endedBy |-> "none", timeoutId |-> "none",
     escalation |-> "none", signals |-> <<>>, result |-> "pending",
     message |-> <<>>]

\* new Error(`Cannot determine command for task: ${task.label}`)
CannotDetermineMessage(label) ==
    <<"Cannot determine command for task:">> \o label

\* new Error(`Task "${task.label}" was terminated`)
TerminatedMessage(label) == <<"Task">> \o label \o <<"was terminated">>

\* new Error(`Task "${task.label}" failed with exit code ${code}`)
ExitCodeMessage(label, code) ==
    <<"Task">> \o label \o <<"failed with exit code", ToString(code)>>

\* the error of a failed spawn, passed through by the 'error' handler
SpawnErrorMessage == <<"spawn", "ENOENT">>

\* generate: error.message.includes('timed out') selects the timeout tips
TimeoutBranch(message) == Includes(message, "timed out")

\* the promise settles once: a later resolve or reject changes nothing
Settle(t, result, message) ==
    IF t.result = "pending"
    THEN [t EXCEPT !.result = result, !.message = message]
    ELSE t

\* child.kill(signal): delivered only while the process exists, and then
\* child.killed becomes true whatever the process does with the signal
Kill(t, signal) ==
    IF t.child = "running"
    THEN [t EXCEPT !.signals = Append(@, signal), !.killed = TRUE]
    ELSE t

\* if (timeoutId) clearTimeout(timeoutId): a timer that fired stays fired
ClearTimeout(t) ==
    IF t.timeoutId = "armed" THEN [t EXCEPT !.timeoutId = "cleared"] ELSE t

TaskInit ==
    \E label \in TaskLabels, hasCommand, timeout, ignoresTerm \in BOOLEAN :
        task = [TaskIdle EXCEPT !.pc = "start", !.label = label,
                                !.hasCommand = hasCommand,
                                !.timeout = timeout,
                                !.ignoresTerm = ignoresTerm]

\* the promise executor: resolve the command, spawn, arm the monitor
TaskSpawn ==
    /\ task.pc = "start"
    /\ task' = IF ~task.hasCommand
               THEN Settle([task EXCEPT !.pc = "spawned"], "rejected",
                           CannotDetermineMessage(task.label))
               ELSE [task EXCEPT !.pc = "spawned", !.child = "running",
                                 !.timeoutId = IF task.timeout THEN "armed"
                                               ELSE "none"]
    /\ UNCHANGED <<scan, gen, disc, sel, bdir, cm>>

\* the setTimeout(..., timeout) callback
TaskTimeoutFires ==
    /\ task.timeoutId = "armed"
    /\ task' = [Kill(task, "SIGTERM") EXCEPT !.timeoutId = "fired",
                                             !.escalation = "armed"]
    /\ UNCHANGED <<scan, gen, disc, sel, bdir, cm>>

\* the inner setTimeout(..., 5000) callback; close does not clear it
TaskEscalationFires ==
    /\ task.escalation = "armed"
    /\ task' = [(IF ~task.killed THEN Kill(task, "SIGKILL") ELSE task)
                    EXCEPT !.escalation = "fired"]
    /\ UNCHANGED <<scan, gen, disc, sel, bdir, cm>>

\* the child ends by itself with an exit code
TaskChildExits ==
    /\ task.child = "running"
    /\ \E code \in ExitCodes :
           task' = [task EXCEPT !.child = "exited", !.code = <<code>>,
                                !.endedBy = "self"]
    /\ UNCHANGED <<scan, gen, disc, sel, bdir, cm>>

\* the child is ended by a signal nobody in this process sent
TaskChildKilledOutside ==
    /\ task.child = "running"
    /\ task' = [task EXCEPT !.child = "exited", !.code = <<>>,
                            !.endedBy = "outside"]
    /\ UNCHANGED <<scan, gen, disc, sel, bdir, cm>>

\* the child dies of a signal the monitor delivered: SIGKILL always,
\* SIGTERM unless the child ignores it
TaskChildDiesOfSignal ==
    /\ task.child = "running"
    /\ \/ Includes(task.signals, "SIGKILL")
       \/ Includes(task.signals, "SIGTERM") /\ ~task.ignoresTerm
    /\ task' = [task EXCEPT !.child = "exited", !.code = <<>>,
                            !.endedBy = "monitor"]
    /\ UNCHANGED <<scan, gen, disc, sel, bdir, cm>>

\* a close handler that tells success from failure by code !== null
TaskCloseTruthyCode ==
    /\ task.child = "exited"
    /\ task' = Settle([ClearTimeout(task) EXCEPT !.child = "closed"],
                      IF task.code # <<>> THEN "resolved" ELSE "rejected",
                      IF task.code # <<>> THEN <<>>
                      ELSE TerminatedMessage(task.label))
    /\ UNCHANGED <<scan, gen, disc, sel, bdir, cm>>

\* child.on('close', (code) => ...)
TaskClose ==
    /\ task.child = "exited"
    /\ task' = Settle([ClearTimeout(task) EXCEPT !.child = "closed"],
                      IF task.code = <<0>> THEN "resolved" ELSE "rejected",
                      IF task.code = <<0>> THEN <<>>
                      ELSE IF task.code = <<>>
                           THEN TerminatedMessage(task.label)
                           ELSE ExitCodeMessage(task.label, task.code[1]))
    /\ UNCHANGED <<scan, gen, disc, sel, bdir, cm>>

\* child.on('error', (err) => ...): the process could not be spawned
TaskError ==
    /\ task.pc = "spawned"
    /\ task.child = "running"
    /\ task.signals = <<>>
    /\ task' = Settle([ClearTimeout(task) EXCEPT !.child = "closed",
                                                 !.endedBy = "spawn"],
                      "rejected", SpawnErrorMessage)
    /\ UNCHANGED <<scan, gen, disc, sel, bdir, cm>>

TaskNext ==
    \/ TaskSpawn
    \/ TaskTimeoutFires
    \/ TaskEscalationFires
    \/ TaskChildExits
    \/ TaskChildKilledOutside
    \/ TaskChildDiesOfSignal
    \/ TaskClose
    \/ TaskError

(***************************************************************************)
(* ConfigManager (lib/config-manager) and the add, edit and remove         *)
(* commands                                                                *)
(***************************************************************************)
\* the characters a name is typed from: a letter, an underscore, a blank
NameChars == {"a", "_", " "}

\* the texts a name prompt or a command-line argument can hold: up to two
\* characters
NameInputs ==
    UNION {[1..n -> NameChars] : n \in 0..2}

SignKeys == {"k1", "k2"}

\* projects one configuration holds in the model
MaxProjects == 2

\* /^[a-zA-Z0-9_-]+$/.test(input)
NamePattern(input) ==
    /\ Len(input) >= 1
    /\ \A k \in 1..Len(input) : input[k] \in {"a", "_"}

\* the configuration of a ConfigManager whose file does not exist yet
DefaultConfig ==
    [rokuDevice |-> [ip |-> "", password |-> ""], projects |-> <<>>]

\* saveConfig: the file is rewritten with the in-memory configuration
saveConfig(m) == [m EXCEPT !.file = <<m.config>>]

\* loadConfig: the parsed file, or the default configuration, which is
\* then saved
loadConfig(file) ==
    IF file # <<>> THEN [config |-> file[1], file |-> file]
    ELSE saveConfig([config |-> DefaultConfig, file |-> file])

\* new ConfigManager()
ConfigManager(file) == loadConfig(file)

\* projects.findIndex(p => p.name === name): zero-based, -1 when none
findIndex(projects, name) ==
    LET hits == {k \in 1..Len(projects) : projects[k].name = name}
    IN IF hits = {} THEN -1
       ELSE (CHOOSE k \in hits : \A h \in hits : k <= h) - 1

\* projects.splice(index, 1): a negative index counts from the end
splice(projects, index) ==
    LET start == IF index < 0
                 THEN (IF Len(projects) + index < 0 THEN 0
                       ELSE Len(projects) + index)
                 ELSE Min(index, Len(projects))
    IN SubSeq(projects, 1, start) \o SubSeq(projects, start + 2, Len(projects))

\* getProject(name): projects.find(p => p.name === name), <<>> for
\* undefined
getProject(m, name) ==
    LET index == findIndex(m.config.projects, name)
    IN IF index = -1 THEN <<>> ELSE <<m.config.projects[index + 1]>>

\* addProject(project)
addProject(m, project) ==
    saveConfig([m EXCEPT !.config.projects = Append(@, project)])

\* { ...old, ...updates }
SpreadUpdates(old, updates) ==
    [f \in DOMAIN old \cup DOMAIN updates |->
        IF f \in DOMAIN updates THEN updates[f] ELSE old[f]]

\* updateProject(name, updates): the manager afterwards and the value
\* returned
updateProject(m, name, updates) ==
    LET index == findIndex(m.config.projects, name)
    IN IF index # -1
       THEN [m |-> saveConfig([m EXCEPT !.config.projects[index + 1] =
                                        SpreadUpdates(@, updates)]),
             returned |-> TRUE]
       ELSE [m |-> m, returned |-> FALSE]

\* removeProject without the test of the index
removeProjectUnguarded(m, name) ==
    LET index == findIndex(m.config.projects, name)
    IN [m |-> saveConfig([m EXCEPT !.config.projects = splice(@, index)]),
        returned |-> TRUE]

\* removeProject(name): the manager afterwards and the value returned
removeProject(m, name) ==
    LET index == findIndex(m.config.projects, name)
    IN IF index # -1
       THEN [m |-> saveConfig([m EXCEPT !.config.projects =
                                            splice(@, index)]),
             returned |-> TRUE]
       ELSE [m |-> m, returned |-> FALSE]

\* the name prompt of add that does not look the name up
validateNewNameNoLookup(m, input) ==
    IF input = <<>> THEN <<"Project name is required">>
    ELSE IF ~NamePattern(input) THEN <<"Project name can only contain">>
    ELSE <<>>

\* validate of the name prompt of add: <<>> for true, else the message
validateNewName(m, input) ==
    IF input = <<>> THEN <<"Project name is required">>
    ELSE IF ~NamePattern(input) THEN <<"Project name can only contain">>
    ELSE IF getProject(m, input) # <<>> THEN <<"Project already exists">>
    ELSE <<>>

\* validate of the name prompt of edit
validateEditName(m, project, input) ==
    IF input = <<>> THEN <<"Project name is required">>
    ELSE IF ~NamePattern(input) THEN <<"Project name can only contain">>
    ELSE IF input # project.name /\ getProject(m, input) # <<>>
         THEN <<"A project with this name already exists">>
    ELSE <<>>

\* no configuration file, no command run yet
CmIdle ==
    [file |-> <<>>, config |-> DefaultConfig, op |-> "none",
     outcome |-> "none", removed |-> <<>>]

\* the state a command leaves: the file, the configuration its manager
\* held, and the removeProject call it made, if any
Ended(m, op, outcome, removed) ==
    [file |-> m.file, config |-> m.config, op |-> op, outcome |-> outcome,
     removed |-> removed]

\* a removeProject call: its argument, the manager before and after, the
\* value returned
RemoveCall(m, name) ==
    LET r == removeProject(m, name)
    IN [name |-> name, before |-> m, after |-> r.m, returned |-> r.returned]

\* roku-pkg add: the prompts are answered (inquirer asks again until
\* validate returns true) and the project is added
CmAdd ==
    /\ \E input \in NameInputs, signKey \in SignKeys :
        LET m == ConfigManager(cm.file)
        IN /\ validateNewName(m, input) = <<>>
           /\ Len(m.config.projects) < MaxProjects
           /\ cm' = Ended(addProject(m, [name |-> input,
                                         signKey |-> signKey]),
                          "add", "added", <<>>)
    /\ UNCHANGED <<scan, task, gen, disc, sel, bdir>>

\* roku-pkg edit [project]: the project is the one the argument names or
\* the one selected from the list of names; a changed name removes the old
\* project and adds the answers, an unchanged one updates the project
CmEdit ==
    /\ LET m == ConfigManager(cm.file)
           projects == m.config.projects
       IN \/ /\ projects = <<>>
             /\ cm' = Ended(m, "edit", "none configured", <<>>)
          \/ /\ projects # <<>>
             /\ \E projectName \in NameInputs \ {<<>>} :
                 /\ getProject(m, projectName) = <<>>
                 /\ cm' = Ended(m, "edit", "not found", <<>>)
          \/ \E k \in 1..Len(projects), input \in NameInputs,
                 signKey \in SignKeys :
                 LET project == getProject(m, projects[k].name)[1]
                     answers == [name |-> input, signKey |-> signKey]
                 IN /\ validateEditName(m, project, input) = <<>>
                    /\ cm' =
                         IF answers.name # project.name
                         THEN LET c == RemoveCall(m, project.name)
                              IN Ended(addProject(c.after, answers),
                                       "edit", "renamed", <<c>>)
                         ELSE Ended(updateProject(m, project.name,
                                                  answers).m,
                                    "edit", "updated", <<>>)
    /\ UNCHANGED <<scan, task, gen, disc, sel, bdir>>

\* roku-pkg remove [project]: the project is the one the argument names
\* or the one selected from the list of names, and it is removed once the
\* removal is confirmed
CmRemove ==
    /\ LET m == ConfigManager(cm.file)
           projects == m.config.projects
       IN \/ /\ projects = <<>>
             /\ cm' = Ended(m, "remove", "none configured", <<>>)
          \/ /\ projects # <<>>
             /\ \E projectName \in NameInputs \ {<<>>} :
                 /\ getProject(m, projectName) = <<>>
                 /\ cm' = Ended(m, "remove", "not found", <<>>)
          \/ \E k \in 1..Len(projects), confirmDelete \in BOOLEAN :
                 LET project == getProject(m, projects[k].name)[1]
                 IN cm' =
                      IF ~confirmDelete
                      THEN Ended(m, "remove", "cancelled", <<>>)
                      ELSE LET c == RemoveCall(m, project.name)
                           IN Ended(c.after, "remove",
                                    IF c.returned THEN "removed"
                                    ELSE "failed", <<c>>)
    /\ UNCHANGED <<scan, task, gen, disc, sel, bdir>>

\* new ConfigManager().removeProject(name), for any name
CmRemoveProject ==
    /\ \E name \in NameInputs :
        LET c == RemoveCall(ConfigManager(cm.file), name)
        IN cm' = Ended(c.after, "removeProject", "returned", <<c>>)
    /\ UNCHANGED <<scan, task, gen, disc, sel, bdir>>

CmNext ==
    \/ CmAdd
    \/ CmEdit
    \/ CmRemove
    \/ CmRemoveProject

(***************************************************************************)
(* getBuildDirectory (utils/vscode-config)                                 *)
(***************************************************************************)
\* a configured path: not set, set to a directory that is missing, set to
\* a directory that exists
PathStates == {"unset", "missing", "exists"}

commonBuildDirs == <<".build", "dist", "build", "out", ".out">>

\* the project directories getBuildDirectory is called on: buildConfig is
\* what extractBuildConfig returns (FALSE for null) with its two paths,
\* bsConfig what readBSConfig returns with its two paths, dirs the
\* conventional directories that exist
BuildDirInputs ==
    {in \in [buildConfig : BOOLEAN, stagingFolderPath : PathStates,
             outDir : PathStates, bsConfig : BOOLEAN,
             stagingDir : PathStates, bsOutDir : PathStates,
             dirs : SUBSET {commonBuildDirs[k] : k \in 1..5}] :
        /\ ~in.buildConfig =>
               (in.stagingFolderPath = "unset" /\ in.outDir = "unset")
        /\ ~in.bsConfig =>
               (in.stagingDir = "unset" /\ in.bsOutDir = "unset")}

\* the first existing directory of commonBuildDirs from position k on,
\* the project root when there is none
FirstCommonDir(in, k) ==
    LET later == {j \in k..Len(commonBuildDirs) :
                      commonBuildDirs[j] \in in.dirs}
    IN IF later = {} THEN "projectRootDir"
       ELSE commonBuildDirs[CHOOSE j \in later : \A h \in later : j <= h]

\* getBuildDirectory that returns a configured path without fs.existsSync
getBuildDirectoryUnchecked(in) ==
    IF in.buildConfig /\ in.stagingFolderPath # "unset"
    THEN "buildConfig.stagingFolderPath"
    ELSE IF in.buildConfig /\ in.outDir # "unset"
    THEN "buildConfig.outDir"
    ELSE IF in.bsConfig /\ in.stagingDir # "unset"
    THEN "bsConfig.stagingDir"
    ELSE IF in.bsConfig /\ in.bsOutDir # "unset"
    THEN "bsConfig.outDir"
    ELSE FirstCommonDir(in, 1)

\* getBuildDirectory(projectRootDir): the directory returned, named by
\* where it comes from
getBuildDirectory(in) ==
    IF in.buildConfig /\ in.stagingFolderPath = "exists"
    THEN "buildConfig.stagingFolderPath"
    ELSE IF in.buildConfig /\ in.outDir = "exists"
    THEN "buildConfig.outDir"
    ELSE IF in.bsConfig /\ in.stagingDir = "exists"
    THEN "bsConfig.stagingDir"
    ELSE IF in.bsConfig /\ in.bsOutDir = "exists"
    THEN "bsConfig.outDir"
    ELSE FirstCommonDir(in, 1)

BdirIdle ==
    [pc |-> "idle",
     in |-> [buildConfig |-> FALSE, stagingFolderPath |-> "unset",
             outDir |-> "unset", bsConfig |-> FALSE, stagingDir |-> "unset",
             bsOutDir |-> "unset", dirs |-> {}],
     result |-> "none"]

BdirInit ==
    \E in \in BuildDirInputs :
        bdir = [BdirIdle EXCEPT !.pc = "call", !.in = in]

\* the call of getBuildDirectory
BdirResolve ==
    /\ bdir.pc = "call"
    /\ bdir' = [bdir EXCEPT !.pc = "done",
                            !.result = getBuildDirectory(bdir.in)]
    /\ UNCHANGED <<scan, task, gen, disc, sel, cm>>

BdirNext == BdirResolve

(***************************************************************************)
(* generate (commands/generate): the pipeline of one run                   *)
(***************************************************************************)
\* heartbeats logged while one deploy runs
MaxBeats == 2

\* paths are <<directory, file name>>; the working directory is /
OutputLocations == {<<"/out", "demo.pkg">>, <<"./out", "demo.pkg">>}

\* the package paths the Deployment Backend hands back
BackendPaths ==
    {<<"/out", "demo.pkg">>, <<"out", "demo.pkg">>,
     <<"/tmp/staged", "demo.pkg">>}

\* path.dirname
Dirname(path) == path[1]

\* the file a path names: relative directories resolve against /
RealFile(path) ==
    <<IF path[1] \in {"./out", "out"} THEN "/out" ELSE path[1], path[2]>>

\* tasks.json catalogs: none or empty, one build task, a build-like and an
\* other task, only an other task
Catalogs ==
    { <<>>,
      <<[label |-> <<"build">>, group |-> "none"]>>,
      <<[label |-> <<"lint">>, group |-> "none"],
        [label |-> <<"Compile", "app">>, group |-> "none"]>>,
      <<[label |-> <<"lint">>, group |-> "test"]>> }

\* --build-task values: not given, a label of a catalog, an unknown label
BuildTaskOptions == {<<>>, <<"build">>, <<"nope">>}

\* task.label.toLowerCase()
ToLowerCase(label) ==
    [k \in 1..Len(label) |->
        IF label[k] = "Compile" THEN "compile" ELSE label[k]]

\* the filter of getBuildTasks
IsBuildTask(t) ==
    \/ \E w \in {"build", "compile", "package", "deploy"} :
           Includes(ToLowerCase(t.label), w)
    \/ t.group = "build"

\* getBuildTasks: the indices of allTasks that pass the filter
BuildTaskIndices(allTasks) ==
    {k \in 1..Len(allTasks) : IsBuildTask(allTasks[k])}

\* allTasks.find(t => t.label === label): <<t>> when found, <<>> otherwise
FindTask(allTasks, label) ==
    IF \E k \in 1..Len(allTasks) : allTasks[k].label = label
    THEN LET k == CHOOSE j \in 1..Len(allTasks) :
                      /\ allTasks[j].label = label
                      /\ \A h \in 1..(j - 1) : allTasks[h].label # label
         IN <<allTasks[k]>>
    ELSE <<>>

\* the rejections executeTask delivers for a task
TaskRejections(label) ==
    {CannotDetermineMessage(label), TerminatedMessage(label),
     SpawnErrorMessage}
        \cup {ExitCodeMessage(label, code) : code \in ExitCodes \ {0}}

\* validateProject that returns at the first missing item
validateProjectFirstOnly(manifest, source, main) ==
    LET errors == IF ~manifest THEN <<"Missing required file: manifest">>
                  ELSE IF ~source
                       THEN <<"Missing required directory: source">>
                       ELSE IF ~main
                            THEN <<"Missing required file: source/main.brs">>
                            ELSE <<>>
    IN [valid |-> Len(errors) = 0, errors |-> errors]

\* RokuDeployManager.validateProject over the three existence checks
validateProject(manifest, source, main) ==
    LET e1 == IF ~manifest THEN <<"Missing required file: manifest">>
              ELSE <<>>
        e2 == IF ~source THEN <<"Missing required directory: source">>
              ELSE IF ~main
                   THEN <<"Missing required file: source/main.brs">>
                   ELSE <<>>
    IN [valid |-> Len(e1 \o e2) = 0, errors |-> e1 \o e2]

\* the statuses the home request answers with
HomeStatuses == {200, 202, 403, 500}

\* the branch the status of the home response selects
HomeBranch(status) ==
    IF status = 200 \/ status = 202 THEN "succeed"
    ELSE IF status = 403 THEN "restricted"
    ELSE "warn"

\* new Error('Deployment timed out after 5 minutes')
DeployTimeoutMessage == <<"Deployment", "timed out", "after 5 minutes">>

\* errors the Deployment Backend rejects a deploy with: a refused
\* connection, and a read failing with ETIMEDOUT (libuv: connection timed out)
DeployErrors ==
    { <<"connect", "ECONNREFUSED">>,
      <<"ETIMEDOUT: connection", "timed out", ", read">> }

GenIdle ==
    [pc |-> "idle", skipBuild |-> FALSE, skipRekey |-> FALSE,
     packageOnly |-> FALSE, useExistingBuild |-> FALSE, buildTask |-> <<>>,
     allTasks |-> <<>>, outputLocation |-> <<>>, buildExists |-> FALSE,
     selectedTask |-> <<>>, issued |-> <<>>, outcome |-> "none",
     timeoutTips |-> FALSE, deploy |-> "none", raced |-> "none",
     timer |-> "none", heartbeat |-> "none", beats |-> 0, offer |-> "none",
     packagePath |-> <<>>, files |-> {}, written |-> {}, exit |-> <<>>,
     validation |-> <<>>, packageFound |-> <<>>, home |-> "none",
     cleanupHome |-> "none", rekey |-> "none", buildPresent |-> FALSE,
     config |-> DefaultConfig, device |-> DefaultConfig.rokuDevice,
     project |-> <<>>, requests |-> <<>>]

\* the configuration file of a run whose project and device are bound:
\* the device is the saved one, or none is saved and the discovered device
\* serves this run only
GenConfigs ==
    {[rokuDevice |-> device,
      projects |-> <<[name |-> <<"a">>, signKey |-> "k1"]>>] :
        device \in {DefaultConfig.rokuDevice,
                    [ip |-> "10.0.0.2", password |-> "rokudev"]}}

\* the device a run uses: the saved one, or with --discover and nothing
\* saved the one discoverAndSelectDevice returned
BoundDevice(config) ==
    IF config.rokuDevice.ip # "" /\ config.rokuDevice.password # ""
    THEN config.rokuDevice
    ELSE [ip |-> "10.0.0.3", password |-> "rokudev"]

\* the state once project and device are bound (generate, before the try)
GenInit ==
    \E skipBuild, skipRekey, packageOnly, useExistingBuild \in BOOLEAN,
       buildTask \in BuildTaskOptions, allTasks \in Catalogs,
       outputLocation \in OutputLocations, buildPresent \in BOOLEAN,
       config \in GenConfigs :
        gen = [GenIdle EXCEPT !.pc = "home", !.skipBuild = skipBuild,
                              !.config = config,
                              !.device = BoundDevice(config),
                              !.project = <<config.projects[1]>>,
                              !.buildPresent = buildPresent,
                              !.skipRekey = skipRekey,
                              !.packageOnly = packageOnly,
                              !.useExistingBuild = useExistingBuild,
                              !.buildTask = buildTask,
                              !.allTasks = allTasks,
                              !.outputLocation = outputLocation]

\* the operations that are requests to the device
DeviceRequests ==
    {"home", "rekeyDevice", "createPackage", "deployAndSignPackage"}

\* what a request to the device is sent with: host and password of the
\* device variable, signing password of the project
Target(g, op) ==
    [op |-> op, host |-> g.device.ip,
     password |-> IF op = "home" THEN "" ELSE g.device.password,
     signingPassword |-> IF op = "home" THEN "" ELSE g.project[1].signKey]

\* an operation the run issues, in order
Issue(g, op) ==
    [g EXCEPT !.issued = Append(@, op),
              !.requests = IF op \in DeviceRequests
                           THEN Append(@, Target(g, op)) ELSE @]

\* a fatal `return` out of the action handler
Return(g) == [g EXCEPT !.pc = "returned", !.outcome = "fatal"]

\* an error thrown inside the try: the outer catch reports it and the
\* handler ends
Catch(g) == [g EXCEPT !.pc = "returned", !.outcome = "fatal"]

\* process.exit(code): nothing of the process runs afterwards
Exit(g, code, outcome) ==
    [g EXCEPT !.pc = "exited", !.exit = <<code>>, !.outcome = outcome,
              !.deploy = IF @ = "running" THEN "abandoned" ELSE @,
              !.timer = IF @ = "armed" THEN "none" ELSE @,
              !.heartbeat = IF @ = "active" THEN "none" ELSE @]

\* GenHome that posts to the saved device, not to the device of the run
GenHomeToSavedDevice ==
    /\ gen.pc = "home"
    /\ gen' = [gen EXCEPT !.pc = "homeWait",
                          !.issued = Append(@, "home"),
                          !.requests =
                              Append(@, [Target(gen, "home") EXCEPT
                                            !.host = gen.config.rokuDevice.ip])]
    /\ UNCHANGED <<scan, task, disc, sel, bdir, cm>>

\* axios.post(.../keypress/home) before the pipeline
GenHome ==
    /\ gen.pc = "home"
    /\ gen' = Issue([gen EXCEPT !.pc = "homeWait"], "home")
    /\ UNCHANGED <<scan, task, disc, sel, bdir, cm>>

\* GenHomeSettles where only a 200 or 202 answer lets the pipeline go on
GenHomeSettlesOrAborts ==
    /\ gen.pc = "homeWait"
    /\ \/ \E status \in HomeStatuses :
              gen' = IF HomeBranch(status) = "succeed"
                     THEN [gen EXCEPT !.pc = "build",
                                      !.home = HomeBranch(status)]
                     ELSE Return([gen EXCEPT !.home = HomeBranch(status)])
       \/ gen' = Return([gen EXCEPT !.home = "catch"])
    /\ UNCHANGED <<scan, task, disc, sel, bdir, cm>>

\* the home request answers with a status (200/202: succeed and wait 2 s,
\* 403 and the others: warn) or fails (the inner catch warns)
GenHomeSettles ==
    /\ gen.pc = "homeWait"
    /\ \/ \E status \in HomeStatuses :
              gen' = [gen EXCEPT !.pc = "build", !.home = HomeBranch(status)]
       \/ gen' = [gen EXCEPT !.pc = "build", !.home = "catch"]
    /\ UNCHANGED <<scan, task, disc, sel, bdir, cm>>

\* GenBuildDecision that takes --use-existing-build at its word
GenBuildDecisionReusesBlindly ==
    /\ gen.pc = "build"
    /\ LET buildExists == gen.buildPresent
           g == [gen EXCEPT !.buildExists = buildExists]
           found == FindTask(gen.allTasks, gen.buildTask)
       IN gen' =
            IF gen.skipBuild THEN [gen EXCEPT !.pc = "config"]
            ELSE IF gen.useExistingBuild THEN [g EXCEPT !.pc = "config"]
            ELSE IF BuildTaskIndices(gen.allTasks) # {}
                    \/ Len(gen.allTasks) > 0
            THEN (IF gen.buildTask # <<>>
                  THEN (IF found = <<>> THEN Return(g)
                        ELSE [g EXCEPT !.pc = "runTask",
                                       !.selectedTask = found])
                  ELSE [g EXCEPT !.pc = "prompt"])
            ELSE [g EXCEPT !.pc = "config"]
    /\ UNCHANGED <<scan, task, disc, sel, bdir, cm>>

\* the build decision up to the task prompt or the first await
GenBuildDecision ==
    /\ gen.pc = "build"
    /\ LET buildExists == gen.buildPresent
           g == [gen EXCEPT !.buildExists = buildExists]
           found == FindTask(gen.allTasks, gen.buildTask)
       IN gen' =
            IF gen.skipBuild THEN [gen EXCEPT !.pc = "config"]
            ELSE IF gen.useExistingBuild
            THEN (IF buildExists THEN [g EXCEPT !.pc = "config"]
                  ELSE Return(g))
            ELSE IF BuildTaskIndices(gen.allTasks) # {}
                    \/ Len(gen.allTasks) > 0
            THEN (IF gen.buildTask # <<>>
                  THEN (IF found = <<>> THEN Return(g)
                        ELSE [g EXCEPT !.pc = "runTask",
                                       !.selectedTask = found])
                  ELSE [g EXCEPT !.pc = "prompt"])
            ELSE [g EXCEPT !.pc = "config"]
    /\ UNCHANGED <<scan, task, disc, sel, bdir, cm>>

\* the list prompt 'Select a build task to run:'
GenTaskPrompt ==
    /\ gen.pc = "prompt"
    /\ \/ \E k \in BuildTaskIndices(gen.allTasks) :
              gen' = [gen EXCEPT !.pc = "runTask",
                                 !.selectedTask = <<gen.allTasks[k]>>]
       \/ gen' = [gen EXCEPT !.pc = "config"]
       \/ /\ gen.buildExists
          /\ gen' = [gen EXCEPT !.pc = "config"]
       \/ /\ Len(gen.allTasks) > Cardinality(BuildTaskIndices(gen.allTasks))
          /\ gen' = [gen EXCEPT !.pc = "promptAll"]
    /\ UNCHANGED <<scan, task, disc, sel, bdir, cm>>

\* the list prompt 'Select any task to run:'
GenAllTasksPrompt ==
    /\ gen.pc = "promptAll"
    /\ \/ \E k \in 1..Len(gen.allTasks) :
              gen' = [gen EXCEPT !.pc = "runTask",
                                 !.selectedTask = <<gen.allTasks[k]>>]
       \/ gen' = [gen EXCEPT !.pc = "config"]
    /\ UNCHANGED <<scan, task, disc, sel, bdir, cm>>

\* executeTask(selectedTask, project.rootDir, 300000) is started
GenRunTaskValidatesFirst ==
    /\ gen.pc = "runTask"
    /\ gen' = Issue(Issue([gen EXCEPT !.pc = "taskWait"], "validate"),
                    "executeTask")
    /\ UNCHANGED <<scan, task, disc, sel, bdir, cm>>

GenRunTask ==
    /\ gen.pc = "runTask"
    /\ gen' = Issue([gen EXCEPT !.pc = "taskWait"], "executeTask")
    /\ UNCHANGED <<scan, task, disc, sel, bdir, cm>>

\* executeTask settles: resolved, or rejected with one of its messages
GenTaskSettles ==
    /\ gen.pc = "taskWait"
    /\ \/ gen' = [gen EXCEPT !.pc = "config"]
       \/ \E message \in TaskRejections(gen.selectedTask[1].label) :
              gen' = Return([gen EXCEPT
                                !.timeoutTips = TimeoutBranch(message)])
    /\ UNCHANGED <<scan, task, disc, sel, bdir, cm>>

\* extractBuildConfig, getBuildDirectory and validateProject(buildDir); the
\* manifest of the build directory is the one the build decision looked
\* for unless a task has run since
GenValidate ==
    /\ gen.pc = "config"
    /\ \E manifest, source, main \in BOOLEAN :
        /\ Includes(gen.issued, "executeTask") \/ manifest = gen.buildPresent
        /\ LET validation == validateProject(manifest, source, main)
               g == [gen EXCEPT !.validation =
                         <<[manifest |-> manifest, source |-> source,
                            main |-> main, valid |-> validation.valid,
                            errors |-> validation.errors]>>]
           IN gen' = IF validation.valid
                     THEN Issue([g EXCEPT !.pc = "packageCheck"], "validate")
                     ELSE Return(Issue(g, "validate"))
    /\ UNCHANGED <<scan, task, disc, sel, bdir, cm>>

\* GenPackageCheck without the return for a missing signed package
GenPackageCheckNoReturn ==
    /\ gen.pc = "packageCheck"
    /\ \E exists, mkdirThrows \in BOOLEAN :
        LET g == [gen EXCEPT !.packageFound = <<exists>>]
        IN gen' = IF mkdirThrows THEN Catch(Issue(g, "packageCheck"))
                  ELSE Issue([g EXCEPT !.pc = "rekey"], "packageCheck")
    /\ UNCHANGED <<scan, task, disc, sel, bdir, cm>>

\* fs.existsSync(project.signPackageLocation), then ensureDirectoryExists,
\* whose mkdirSync may throw
GenPackageCheck ==
    /\ gen.pc = "packageCheck"
    /\ \E exists, mkdirThrows \in BOOLEAN :
        LET g == [gen EXCEPT !.packageFound = <<exists>>]
        IN gen' = IF ~exists THEN Return(Issue(g, "packageCheck"))
                  ELSE IF mkdirThrows THEN Catch(Issue(g, "packageCheck"))
                  ELSE Issue([g EXCEPT !.pc = "rekey"], "packageCheck")
    /\ UNCHANGED <<scan, task, disc, sel, bdir, cm>>

\* GenRekeyDecision that rekeys whatever --skip-rekey says
GenRekeyDecisionIgnoresSkip ==
    /\ gen.pc = "rekey"
    /\ gen' = Issue([gen EXCEPT !.pc = "rekeyWait"], "rekeyDevice")
    /\ UNCHANGED <<scan, task, disc, sel, bdir, cm>>

\* GenRekeyDecision in the order of the README list: the deploy request
\* goes out before the rekey request
GenRekeyDecisionDeployFirst ==
    /\ gen.pc = "rekey"
    /\ gen' = IF gen.skipRekey THEN [gen EXCEPT !.pc = "deploy"]
              ELSE Issue(Issue([gen EXCEPT !.pc = "rekeyWait"],
                               "deployAndSignPackage"), "rekeyDevice")
    /\ UNCHANGED <<scan, task, disc, sel, bdir, cm>>

\* if (!options.skipRekey) deployManager.rekeyDevice(...)
GenRekeyDecision ==
    /\ gen.pc = "rekey"
    /\ gen' = IF gen.skipRekey THEN [gen EXCEPT !.pc = "deploy"]
              ELSE Issue([gen EXCEPT !.pc = "rekeyWait"], "rekeyDevice")
    /\ UNCHANGED <<scan, task, disc, sel, bdir, cm>>

\* GenRekeySettles with the return after a failed rekey left out
GenRekeySettlesNoReturn ==
    /\ gen.pc = "rekeyWait"
    /\ \/ gen' = [gen EXCEPT !.pc = "deploy", !.rekey = "ok"]
       \/ gen' = [gen EXCEPT !.pc = "deploy", !.outcome = "fatal",
                             !.rekey = "failed"]
    /\ UNCHANGED <<scan, task, disc, sel, bdir, cm>>

\* rekeyDevice settles: wait 5 s and go on, or report and return
GenRekeySettles ==
    /\ gen.pc = "rekeyWait"
    /\ \/ gen' = [gen EXCEPT !.pc = "deploy", !.rekey = "ok"]
       \/ gen' = Return([gen EXCEPT !.rekey = "failed"])
    /\ UNCHANGED <<scan, task, disc, sel, bdir, cm>>

\* if (options.packageOnly) createPackage(...), else the heartbeat interval
\* is set and deployAndSignPackage races the timeout timer
GenDeployDecision ==
    /\ gen.pc = "deploy"
    /\ gen' = IF gen.packageOnly
              THEN Issue([gen EXCEPT !.pc = "createWait"], "createPackage")
              ELSE Issue([gen EXCEPT !.pc = "race", !.deploy = "running",
                                     !.timer = "armed",
                                     !.heartbeat = "active"],
                         "deployAndSignPackage")
    /\ UNCHANGED <<scan, task, disc, sel, bdir, cm>>

\* the package-only createPackage settles: a package path, or an error
\* that is reported before the handler returns
GenCreateSettles ==
    /\ gen.pc = "createWait"
    /\ \/ \E path \in BackendPaths :
              gen' = [gen EXCEPT !.pc = "relocate", !.packagePath = <<path>>,
                                 !.files = @ \cup {RealFile(path)},
                                 !.written = @ \cup {RealFile(path)}]
       \/ gen' = Return(gen)
    /\ UNCHANGED <<scan, task, disc, sel, bdir, cm>>

\* the setInterval callback of the full deploy
GenHeartbeat ==
    /\ gen.heartbeat = "active"
    /\ gen.beats < MaxBeats
    /\ gen' = [gen EXCEPT !.beats = @ + 1]
    /\ UNCHANGED <<scan, task, disc, sel, bdir, cm>>

\* what the catch around the race does with the error it is handed
RaceCatch(g, message) ==
    IF TimeoutBranch(message) THEN [g EXCEPT !.pc = "offer",
                                             !.offer = "offered"]
    ELSE Catch(g)

\* deployAndSignPackage resolves with the package it wrote; finally clears
\* the heartbeat; the race, if still open, is won and the timer stays armed
GenDeployResolves ==
    /\ gen.deploy = "running"
    /\ \E path \in BackendPaths :
        LET g == [gen EXCEPT !.deploy = "resolved", !.heartbeat = "cleared",
                             !.files = @ \cup {RealFile(path)},
                             !.written = @ \cup {RealFile(path)}]
        IN gen' = IF gen.pc = "race"
                  THEN [g EXCEPT !.pc = "relocate", !.raced = "deploy",
                                 !.packagePath = <<path>>]
                  ELSE g
    /\ UNCHANGED <<scan, task, disc, sel, bdir, cm>>

\* deployAndSignPackage rejects; the race, if still open, rejects with it
GenDeployRejects ==
    /\ gen.deploy = "running"
    /\ \E message \in DeployErrors :
        LET g == [gen EXCEPT !.deploy = "rejected", !.heartbeat = "cleared"]
        IN gen' = IF gen.pc = "race"
                  THEN RaceCatch([g EXCEPT !.raced = "error"], message)
                  ELSE g
    /\ UNCHANGED <<scan, task, disc, sel, bdir, cm>>

\* GenDeployTimerFires whose callback leaves the heartbeat interval set
GenDeployTimerFiresKeepsHeartbeat ==
    /\ gen.timer = "armed"
    /\ LET g == [gen EXCEPT !.timer = "fired"]
       IN gen' = IF gen.pc = "race"
                 THEN RaceCatch([g EXCEPT !.raced = "timer"],
                                DeployTimeoutMessage)
                 ELSE g
    /\ UNCHANGED <<scan, task, disc, sel, bdir, cm>>

\* the setTimeout(..., deploymentTimeout) callback: the deploy is left
\* running; the race, if still open, rejects with the timeout error
GenDeployTimerFires ==
    /\ gen.timer = "armed"
    /\ LET g == [gen EXCEPT !.timer = "fired",
                            !.heartbeat = IF @ = "active" THEN "cleared"
                                          ELSE @]
       IN gen' = IF gen.pc = "race"
                 THEN RaceCatch([g EXCEPT !.raced = "timer"],
                                DeployTimeoutMessage)
                 ELSE g
    /\ UNCHANGED <<scan, task, disc, sel, bdir, cm>>

\* the confirm prompt: createPackage as the fallback, or process.exit(1)
GenFallbackAnswer ==
    /\ gen.pc = "offer"
    /\ \E trySimple \in BOOLEAN :
           gen' = IF trySimple
                  THEN Issue([gen EXCEPT !.pc = "fallbackWait",
                                         !.offer = "accepted"],
                             "createPackage")
                  ELSE Exit([gen EXCEPT !.offer = "declined"], 1, "declined")
    /\ UNCHANGED <<scan, task, disc, sel, bdir, cm>>

\* the fallback createPackage settles: a package path, or an error thrown
\* out of the catch block to the outer catch
GenFallbackSettles ==
    /\ gen.pc = "fallbackWait"
    /\ \/ \E path \in BackendPaths :
              gen' = [gen EXCEPT !.pc = "relocate", !.packagePath = <<path>>,
                                 !.files = @ \cup {RealFile(path)},
                                 !.written = @ \cup {RealFile(path)}]
       \/ gen' = Catch(gen)
    /\ UNCHANGED <<scan, task, disc, sel, bdir, cm>>

\* fs.copyFileSync(src, dst): copying a file onto itself changes nothing
CopyFile(g, src, dst) ==
    IF RealFile(src) = RealFile(dst) THEN Issue(g, "copyFileSync")
    ELSE Issue([g EXCEPT !.files = @ \cup {RealFile(dst)},
                         !.written = @ \cup {RealFile(dst)}],
               "copyFileSync")

\* fs.unlinkSync(path)
Unlink(g, path) ==
    Issue([g EXCEPT !.files = @ \ {RealFile(path)}], "unlinkSync")

\* step 5: copy to the output location, unlink the original when its
\* directory name differs
Relocate(g) ==
    LET src == g.packagePath[1]
        dst == g.outputLocation
        copied == CopyFile(g, src, dst)
    IN IF src # dst
       THEN [(IF Dirname(src) # Dirname(dst) THEN Unlink(copied, src)
              ELSE copied) EXCEPT !.packagePath = <<dst>>]
       ELSE g

\* step 5, then fs.statSync(project.outputLocation), which throws when the
\* file is missing, and the report of path and size
GenRelocate ==
    /\ gen.pc = "relocate"
    /\ LET g == Relocate(gen)
       IN gen' = IF RealFile(gen.outputLocation) \in g.files
                 THEN Issue([g EXCEPT !.pc = "cleanup"], "report")
                 ELSE Catch(g)
    /\ UNCHANGED <<scan, task, disc, sel, bdir, cm>>

\* GenCleanupHome that first saves the device of the run
GenCleanupHomeSavesDevice ==
    /\ gen.pc = "cleanup"
    /\ gen' = Issue([gen EXCEPT !.pc = "cleanupWait",
                                !.config.rokuDevice =
                                    [ip |-> "10.0.0.2",
                                     password |-> "rokudev"]],
                    "home")
    /\ UNCHANGED <<scan, task, disc, sel, bdir, cm>>

\* axios.post(.../keypress/home) as cleanup
GenCleanupHome ==
    /\ gen.pc = "cleanup"
    /\ gen' = Issue([gen EXCEPT !.pc = "cleanupWait"], "home")
    /\ UNCHANGED <<scan, task, disc, sel, bdir, cm>>

\* the cleanup home request answers or fails; then process.exit(0)
GenCleanupSettles ==
    /\ gen.pc = "cleanupWait"
    /\ \/ \E status \in HomeStatuses :
              gen' = Exit([gen EXCEPT !.cleanupHome = HomeBranch(status)],
                          0, "success")
       \/ gen' = Exit([gen EXCEPT !.cleanupHome = "catch"], 0, "success")
    /\ UNCHANGED <<scan, task, disc, sel, bdir, cm>>

\* the handler has returned and nothing is pending: node ends the process
\* with process.exitCode, which nothing has set
GenProcessEnds ==
    /\ gen.pc = "returned"
    /\ gen.deploy # "running"
    /\ gen.timer # "armed"
    /\ gen' = [gen EXCEPT !.pc = "exited", !.exit = <<0>>]
    /\ UNCHANGED <<scan, task, disc, sel, bdir, cm>>

GenNext ==
    \/ GenHome
    \/ GenHomeSettles
    \/ GenBuildDecision
    \/ GenTaskPrompt
    \/ GenAllTasksPrompt
    \/ GenRunTask
    \/ GenTaskSettles
    \/ GenValidate
    \/ GenPackageCheck
    \/ GenRekeyDecision
    \/ GenRekeySettles
    \/ GenDeployDecision
    \/ GenCreateSettles
    \/ GenHeartbeat
    \/ GenDeployResolves
    \/ GenDeployRejects
    \/ GenDeployTimerFires
    \/ GenFallbackAnswer
    \/ GenFallbackSettles
    \/ GenRelocate
    \/ GenCleanupHome
    \/ GenCleanupSettles
    \/ GenProcessEnds

\* the steps that wait for no answer of the Deployment Backend: the
\* handler's own code, the prompts, the build task (executeTask has its
\* timeout) and the home requests (axios timeout: 5000)
GenClientStep ==
    \/ GenHome
    \/ GenHomeSettles
    \/ GenBuildDecision
    \/ GenTaskPrompt
    \/ GenAllTasksPrompt
    \/ GenRunTask
    \/ GenTaskSettles
    \/ GenValidate
    \/ GenPackageCheck
    \/ GenRekeyDecision
    \/ GenDeployDecision
    \/ GenFallbackAnswer
    \/ GenRelocate
    \/ GenCleanupHome
    \/ GenCleanupSettles
    \/ GenProcessEnds

(***************************************************************************)
(* RokuDiscovery.discoverDevices: the two strategies and the merge         *)
(***************************************************************************)
\* the addresses that answer in the model, in the order the scan visits them
DiscIPs == <<"10.0.0.2", "10.0.0.3">>

\* device-info answers: marker is the <device-info> element, the other
\* fields are the text of the tags ("" when the tag is missing)
Docs ==
    { [marker |-> TRUE, friendly |-> "Den", version |-> "12.5"],
      [marker |-> TRUE, friendly |-> "attic", version |-> ""],
      [marker |-> TRUE, friendly |-> "", version |-> "12.5"],
      [marker |-> FALSE, friendly |-> "", version |-> ""] }

\* parseDeviceInfo: every field of the record is always set
parseDeviceInfo(ip, doc) ==
    [ip |-> ip,
     name |-> IF doc.friendly # "" THEN <<doc.friendly>> ELSE <<"Roku-", ip>>,
     modelName |-> "Unknown Roku",
     serialNumber |-> "Unknown",
     softwareVersion |-> doc.version,
     deviceType |-> ""]

\* checkIfRokuDevice: <<device>> for a 200 answer with the marker, <<>>
\* (null) for every failure and every other answer
checkIfRokuDevice(ip, answer) ==
    IF answer # <<>> /\ answer[1].marker
    THEN <<parseDeviceInfo(ip, answer[1])>>
    ELSE <<>>

\* getDeviceInfo: <<device>> for any answer with data, <<>> otherwise
getDeviceInfo(ip, answer) ==
    IF answer # <<>> THEN <<parseDeviceInfo(ip, answer[1])>> ELSE <<>>

\* what a request to an address settles with: <<>> for a timeout, a
\* refusal or an error status, <<doc>> for an answer
Answers == {<<>>} \cup {<<doc>> : doc \in Docs}

\* the value discoverViaNetworkScan resolves with: the non-null results in
\* the order of checkPromises
RECURSIVE ScanValue(_, _)
ScanValue(answer, k) ==
    IF k > Len(DiscIPs) THEN <<>>
    ELSE checkIfRokuDevice(DiscIPs[k], answer[DiscIPs[k]])
             \o ScanValue(answer, k + 1)

\* the position of an address in a Map kept as a sequence of records, 0
\* when the Map has no such key
MapIndex(devices, ip) ==
    IF \E k \in 1..Len(devices) : devices[k].ip = ip
    THEN CHOOSE k \in 1..Len(devices) : devices[k].ip = ip
    ELSE 0

\* devices.set(device.ip, device): a known key keeps its position
MapSet(devices, device) ==
    IF MapIndex(devices, device.ip) = 0 THEN Append(devices, device)
    ELSE [devices EXCEPT ![MapIndex(devices, device.ip)] = device]

\* Spread with the operands swapped: { ...device, ...existing }
SpreadExistingWins(existing, device) ==
    [f \in DOMAIN existing \cup DOMAIN device |->
        IF f \in DOMAIN existing THEN existing[f] ELSE device[f]]

\* { ...existing, ...device }
Spread(existing, device) ==
    [f \in DOMAIN existing \cup DOMAIN device |->
        IF f \in DOMAIN device THEN device[f] ELSE existing[f]]

\* the names of the model in the order of String.prototype.localeCompare:
\* letters compare without case first, so attic precedes Den
LocaleOrder ==
    << <<"attic">>, <<"Den">>, <<"Roku-", "10.0.0.2">>,
       <<"Roku-", "10.0.0.3">> >>

\* a.localeCompare(b): negative, zero or positive
localeCompare(a, b) ==
    (CHOOSE k \in 1..Len(LocaleOrder) : LocaleOrder[k] = a)
        - (CHOOSE k \in 1..Len(LocaleOrder) : LocaleOrder[k] = b)

\* one element inserted into a sorted sequence after its equals
Insert(sorted, device) ==
    LET k == Cardinality({j \in 1..Len(sorted) :
                 localeCompare(sorted[j].name, device.name) <= 0})
    IN SubSeq(sorted, 1, k) \o <<device>>
           \o SubSeq(sorted, k + 1, Len(sorted))

\* Array.prototype.sort((a, b) => a.name.localeCompare(b.name)), stable
RECURSIVE Sort(_)
Sort(devices) ==
    IF devices = <<>> THEN <<>>
    ELSE Insert(Sort(SubSeq(devices, 1, Len(devices) - 1)),
                devices[Len(devices)])

\* ssdpDevices.value.forEach(device => devices.set(device.ip, device))
RECURSIVE SetAll(_, _)
SetAll(devices, value) ==
    IF value = <<>> THEN devices
    ELSE SetAll(MapSet(devices, value[1]), Tail(value))

\* networkDevices.value.forEach: merge with the existing record, or set
RECURSIVE MergeAll(_, _)
MergeAll(devices, value) ==
    IF value = <<>> THEN devices
    ELSE LET k == MapIndex(devices, value[1].ip)
         IN MergeAll(IF k # 0
                     THEN MapSet(devices, Spread(devices[k], value[1]))
                     ELSE MapSet(devices, value[1]),
                     Tail(value))

\* Promise.all in the place of Promise.allSettled: one rejection rejects
PromiseAll(ssdp, net) ==
    [rejected |-> ssdp = "rejected" \/ net = "rejected"]

\* Promise.allSettled([...]): never rejects, whatever the two outcomes are
AllSettled(ssdp, net) == [rejected |-> FALSE]

\* discoverDevices after the await: combine the fulfilled values and sort
Combine(d) ==
    LET settled == AllSettled(d.ssdp, d.net)
        fromSsdp == IF d.ssdp = "fulfilled" THEN SetAll(<<>>, d.ssdpValue)
                    ELSE <<>>
        merged == IF d.net = "fulfilled" THEN MergeAll(fromSsdp, d.netValue)
                  ELSE fromSsdp
    IN IF settled.rejected
       THEN [d EXCEPT !.pc = "done", !.threw = TRUE]
       ELSE [d EXCEPT !.pc = "done", !.result = Sort(merged)]

DiscIdle ==
    [pc |-> "idle", ssdp |-> "idle", net |-> "idle", devices |-> <<>>,
     fetches |-> {}, replies |-> 0, ssdpValue |-> <<>>, netValue |-> <<>>,
     result |-> <<>>, threw |-> FALSE]

DiscInit == disc = [DiscIdle EXCEPT !.pc = "start"]

\* discoverDevices calls both strategies: dgram.createSocket either throws
\* (the promise of discoverViaSsdp rejects) or bind is requested; the scan
\* issues its requests
DiscStart ==
    /\ disc.pc = "start"
    /\ \E createThrows \in BOOLEAN :
           disc' = [disc EXCEPT !.pc = "await", !.net = "running",
                                !.ssdp = IF createThrows THEN "rejected"
                                         ELSE "binding"]
    /\ UNCHANGED <<scan, task, gen, sel, bdir, cm>>

\* the bind callback: setBroadcast and send
SsdpBound ==
    /\ disc.ssdp = "binding"
    /\ disc' = [disc EXCEPT !.ssdp = "sending"]
    /\ UNCHANGED <<scan, task, gen, sel, bdir, cm>>

\* bind fails: the socket emits 'error', the handler does nothing, and the
\* bind callback, the only path to resolve, never runs
SsdpBindError ==
    /\ disc.ssdp = "binding"
    /\ disc' = [disc EXCEPT !.ssdp = "failed"]
    /\ UNCHANGED <<scan, task, gen, sel, bdir, cm>>

\* the send callback, with or without an error: the discovery window opens
SsdpSent ==
    /\ disc.ssdp = "sending"
    /\ disc' = [disc EXCEPT !.ssdp = "window"]
    /\ UNCHANGED <<scan, task, gen, sel, bdir, cm>>

\* socket.on('message'): a reply that advertises roku:ecp with a LOCATION
\* starts getDeviceInfo for its address; any other datagram is dropped
SsdpMessage ==
    /\ disc.ssdp \in {"sending", "window"}
    /\ disc.replies < MaxReplies
    /\ \E k \in 1..Len(DiscIPs), advertises \in BOOLEAN :
           disc' = [disc EXCEPT !.replies = @ + 1,
                                !.fetches = IF advertises
                                            THEN @ \cup {DiscIPs[k]}
                                            ELSE @]
    /\ UNCHANGED <<scan, task, gen, sel, bdir, cm>>

\* getDeviceInfo settles inside the message handler: a device is set into
\* the Map of the strategy, whether or not the window is still open
SsdpFetchSettles ==
    /\ \E ip \in disc.fetches, answer \in Answers :
        LET device == getDeviceInfo(ip, answer)
        IN disc' = [disc EXCEPT !.fetches = @ \ {ip},
                                !.devices = IF device # <<>>
                                            THEN MapSet(@, device[1])
                                            ELSE @]
    /\ UNCHANGED <<scan, task, gen, sel, bdir, cm>>

\* the DISCOVERY_TIMEOUT timer: close the socket and resolve with the
\* devices of this moment
SsdpWindowCloses ==
    /\ disc.ssdp = "window"
    /\ disc' = [disc EXCEPT !.ssdp = "fulfilled", !.ssdpValue = disc.devices]
    /\ UNCHANGED <<scan, task, gen, sel, bdir, cm>>

\* discoverViaNetworkScan fulfils once its last chunk has settled
NetFulfils ==
    /\ disc.net = "running"
    /\ \E answer \in [{DiscIPs[k] : k \in 1..Len(DiscIPs)} -> Answers] :
           disc' = [disc EXCEPT !.net = "fulfilled",
                                !.netValue = ScanValue(answer, 1)]
    /\ UNCHANGED <<scan, task, gen, sel, bdir, cm>>

\* discoverViaNetworkScan rejects (getNetworkRanges throws)
NetRejects ==
    /\ disc.net = "running"
    /\ disc' = [disc EXCEPT !.net = "rejected"]
    /\ UNCHANGED <<scan, task, gen, sel, bdir, cm>>

\* the await of Promise.allSettled returns once both promises have settled
DiscCombine ==
    /\ disc.pc = "await"
    /\ disc.ssdp \in {"fulfilled", "rejected"}
    /\ disc.net \in {"fulfilled", "rejected"}
    /\ disc' = Combine(disc)
    /\ UNCHANGED <<scan, task, gen, sel, bdir, cm>>

DiscNext ==
    \/ DiscStart
    \/ SsdpBound
    \/ SsdpBindError
    \/ SsdpSent
    \/ SsdpMessage
    \/ SsdpFetchSettles
    \/ SsdpWindowCloses
    \/ NetFulfils
    \/ NetRejects
    \/ DiscCombine

(***************************************************************************)
(* discoverAndSelectDevice of commands/generate, with RokuAPI.testConnection*)
(* and RokuDiscovery.testDevice                                            *)
(***************************************************************************)
\* the developer password the device accepts on its authenticated endpoints
DeviceSecret == "rokudev-secret"

\* passwords a user supplies by flag or at the prompt
Passwords == {DeviceSecret, "wrong"}

\* what a GET of :8060/query/device-info settles with: a response with its
\* status, or no response at all (status 0)
EcpAnswers ==
    {[kind |-> "response", status |-> st] : st \in {200, 204, 401, 404, 500}}
        \cup {[kind |-> "timeout", status |-> 0],
              [kind |-> "refused", status |-> 0]}

\* axios.get with the default validateStatus: fulfils with the response for
\* a 2xx status and rejects for every other status and every network error
AxiosGet(answer) ==
    IF answer.kind = "response" /\ answer.status >= 200 /\ answer.status < 300
    THEN [rejected |-> FALSE, status |-> answer.status]
    ELSE [rejected |-> TRUE, status |-> answer.status]

\* testDevice without the comparison: any fulfilled request counts
testDeviceAnyStatus(answer) ==
    LET response == AxiosGet(answer)
    IN [threw |-> FALSE, value |-> answer.kind = "response"]

\* RokuDiscovery.testDevice: response.status === 200, false from the catch
testDevice(answer) ==
    LET response == AxiosGet(answer)
    IN [threw |-> FALSE,
        value |-> IF response.rejected THEN FALSE ELSE response.status = 200]

\* RokuAPI.testConnection: the request goes to the device-info endpoint of
\* port 8060 and carries no credentials, so the password of the RokuAPI
\* has no part in the outcome
testConnection(password, answer) ==
    LET response == AxiosGet(answer)
    IN [threw |-> FALSE, value |-> ~response.rejected]

SelIdle ==
    [pc |-> "idle", command |-> "none", companion |-> FALSE, error |-> FALSE,
     autoSelectFirst |-> FALSE, providedPassword |-> <<>>,
     devices |-> <<>>, selected |-> <<>>, password |-> <<>>,
     rememberDevice |-> FALSE, reachAnswer |-> <<>>, isReachable |-> <<>>,
     authAnswer |-> <<>>, authSuccess |-> <<>>, calls |-> <<>>,
     saved |-> <<>>, result |-> "none", threw |-> FALSE]

\* the command line: generate or discover, the companion flag of
\* --first-device (--discover for generate, --configure for discover),
\* --first-device and --password
SelInit ==
    \E command \in {"generate", "discover"}, companion, first \in BOOLEAN,
       pw \in {<<>>} \cup {<<w>> : w \in Passwords} :
        sel = [SelIdle EXCEPT !.pc = "flags", !.command = command,
                              !.companion = companion,
                              !.autoSelectFirst = first,
                              !.providedPassword = pw]

\* SelFlags without the validation of the flag combination
SelFlagsUnchecked ==
    /\ sel.pc = "flags"
    /\ \E bound \in BOOLEAN :
        sel' = IF sel.command = "generate" /\ ~bound
               THEN [sel EXCEPT !.pc = "done", !.result = "unbound"]
               ELSE IF sel.command = "generate" /\ ~sel.companion
               THEN [sel EXCEPT !.pc = "done", !.result = "configured"]
               ELSE [sel EXCEPT !.pc = "discover"]
    /\ UNCHANGED <<scan, task, gen, disc, bdir, cm>>

\* the action handler up to the discovery: --first-device without its
\* companion flag is an error and the handler returns; generate then binds
\* the project (none configured or not found: return) and, without
\* --discover, takes the configured device; discover always discovers
SelFlags ==
    /\ sel.pc = "flags"
    /\ \E bound \in BOOLEAN :
        sel' = IF sel.autoSelectFirst /\ ~sel.companion
               THEN [sel EXCEPT !.pc = "done", !.error = TRUE,
                                !.result = "error"]
               ELSE IF sel.command = "generate" /\ ~bound
               THEN [sel EXCEPT !.pc = "done", !.result = "unbound"]
               ELSE IF sel.command = "generate" /\ ~sel.companion
               THEN [sel EXCEPT !.pc = "done", !.result = "configured"]
               ELSE [sel EXCEPT !.pc = "discover"]
    /\ UNCHANGED <<scan, task, gen, disc, bdir, cm>>

\* await RokuDiscovery.discoverDevices(): an empty list ends the command;
\* discover without --configure ends after listing the devices
SelDiscovered ==
    /\ sel.pc = "discover"
    /\ \E n \in 0..Len(DiscIPs) :
        LET devices == SubSeq(DiscIPs, 1, n)
            ends == devices = <<>>
                        \/ (sel.command = "discover" /\ ~sel.companion)
        IN sel' = [sel EXCEPT
               !.calls = Append(@, "discoverDevices"),
               !.devices = devices,
               !.pc = IF ends THEN "done" ELSE "select",
               !.result = IF devices = <<>> THEN "null"
                          ELSE IF ends THEN "listed" ELSE @]
    /\ UNCHANGED <<scan, task, gen, disc, bdir, cm>>

\* devices[0] with autoSelectFirst, else the list prompt with its Cancel
\* entry; then testDevice is called for the selected device
SelSelect ==
    /\ sel.pc = "select"
    /\ \/ /\ sel.autoSelectFirst
          /\ sel' = [sel EXCEPT !.selected = <<sel.devices[1]>>,
                                !.calls = Append(@, "testDevice"),
                                !.pc = "reachWait"]
       \/ /\ ~sel.autoSelectFirst
          /\ \E k \in 0..Len(sel.devices) :
                sel' = IF k = 0
                       THEN [sel EXCEPT !.pc = "done", !.result = "null"]
                       ELSE [sel EXCEPT !.selected = <<sel.devices[k]>>,
                                        !.calls = Append(@, "testDevice"),
                                        !.pc = "reachWait"]
    /\ UNCHANGED <<scan, task, gen, disc, bdir, cm>>

\* SelTestDeviceSettles that asks for the password of a device that is
\* not reachable, too
SelTestDeviceSettlesGoesOn ==
    /\ sel.pc = "reachWait"
    /\ \E answer \in EcpAnswers :
        LET r == testDevice(answer)
        IN sel' = IF r.threw
                  THEN [sel EXCEPT !.reachAnswer = <<answer>>,
                                   !.threw = TRUE,
                                   !.pc = "done", !.result = "null"]
                  ELSE [sel EXCEPT !.reachAnswer = <<answer>>,
                                   !.isReachable = <<r.value>>,
                                   !.pc = "password"]
    /\ UNCHANGED <<scan, task, gen, disc, bdir, cm>>

\* testDevice settles: not reachable returns null; a throw would reach the
\* outer catch, which reports 'Discovery failed' and returns null
SelTestDeviceSettles ==
    /\ sel.pc = "reachWait"
    /\ \E answer \in EcpAnswers :
        LET r == testDevice(answer)
        IN sel' = IF r.threw
                  THEN [sel EXCEPT !.reachAnswer = <<answer>>,
                                   !.threw = TRUE,
                                   !.pc = "done", !.result = "null"]
                  ELSE IF ~r.value
                  THEN [sel EXCEPT !.reachAnswer = <<answer>>,
                                   !.isReachable = <<FALSE>>,
                                   !.pc = "done", !.result = "null"]
                  ELSE [sel EXCEPT !.reachAnswer = <<answer>>,
                                   !.isReachable = <<TRUE>>,
                                   !.pc = "password"]
    /\ UNCHANGED <<scan, task, gen, disc, bdir, cm>>

\* the password: the one provided, with rememberDevice false, or the
\* prompt (which validates a non-empty input) with the save question;
\* then testConnection is called
SelPassword ==
    /\ sel.pc = "password"
    /\ \/ /\ sel.providedPassword # <<>>
          /\ sel' = [sel EXCEPT !.password = sel.providedPassword,
                                !.rememberDevice = FALSE,
                                !.calls = Append(@, "testConnection"),
                                !.pc = "authWait"]
       \/ /\ sel.providedPassword = <<>>
          /\ \E pw \in Passwords, remember \in BOOLEAN :
                /\ sel.command = "discover" => ~remember
                /\ sel' = [sel EXCEPT !.password = <<pw>>,
                                   !.rememberDevice = remember,
                                   !.calls = Append(@, "testConnection"),
                                   !.pc = "authWait"]
    /\ UNCHANGED <<scan, task, gen, disc, bdir, cm>>

\* testConnection settles: false returns null; true builds the device
\* record; generate saves it when asked to and returns it, discover
\* --configure saves it
SelTestConnectionSettles ==
    /\ sel.pc = "authWait"
    /\ \E answer \in EcpAnswers :
        LET r == testConnection(sel.password[1], answer)
            saves == sel.command = "discover" \/ sel.rememberDevice
        IN sel' = IF r.threw \/ ~r.value
                  THEN [sel EXCEPT !.authAnswer = <<answer>>,
                                   !.authSuccess = IF r.threw THEN <<>>
                                                   ELSE <<FALSE>>,
                                   !.threw = r.threw,
                                   !.pc = "done", !.result = "null"]
                  ELSE [sel EXCEPT
                           !.authAnswer = <<answer>>,
                           !.authSuccess = <<TRUE>>,
                           !.calls = IF saves
                                     THEN Append(@, "setRokuDevice")
                                     ELSE @,
                           !.saved = IF saves
                                     THEN <<[ip |-> sel.selected[1],
                                             password |-> sel.password[1]]>>
                                     ELSE @,
                           !.pc = "done",
                           !.result = IF sel.command = "generate"
                                      THEN "device" ELSE "saved"]
    /\ UNCHANGED <<scan, task, gen, disc, bdir, cm>>

SelNext ==
    \/ SelFlags
    \/ SelDiscovered
    \/ SelSelect
    \/ SelTestDeviceSettles
    \/ SelPassword
    \/ SelTestConnectionSettles

(***************************************************************************)
(* Specifications                                                          *)
(***************************************************************************)
ScanStart ==
    /\ ScanInit
    /\ task = TaskIdle
    /\ gen = GenIdle
    /\ disc = DiscIdle
    /\ sel = SelIdle
    /\ bdir = BdirIdle
    /\ cm = CmIdle

TaskStart ==
    /\ TaskInit
    /\ scan = ScanIdle
    /\ gen = GenIdle
    /\ disc = DiscIdle
    /\ sel = SelIdle
    /\ bdir = BdirIdle
    /\ cm = CmIdle

GenStart ==
    /\ GenInit
    /\ scan = ScanIdle
    /\ task = TaskIdle
    /\ disc = DiscIdle
    /\ sel = SelIdle
    /\ bdir = BdirIdle
    /\ cm = CmIdle

DiscBegin ==
    /\ DiscInit
    /\ scan = ScanIdle
    /\ task = TaskIdle
    /\ gen = GenIdle
    /\ sel = SelIdle
    /\ bdir = BdirIdle
    /\ cm = CmIdle

SelStart ==
    /\ SelInit
    /\ scan = ScanIdle
    /\ task = TaskIdle
    /\ gen = GenIdle
    /\ disc = DiscIdle
    /\ bdir = BdirIdle
    /\ cm = CmIdle

BdirStart ==
    /\ BdirInit
    /\ scan = ScanIdle
    /\ task = TaskIdle
    /\ gen = GenIdle
    /\ disc = DiscIdle
    /\ sel = SelIdle
    /\ cm = CmIdle

CmStart ==
    /\ cm = CmIdle
    /\ scan = ScanIdle
    /\ task = TaskIdle
    /\ gen = GenIdle
    /\ disc = DiscIdle
    /\ sel = SelIdle
    /\ bdir = BdirIdle

SpecScan == ScanStart /\ [][ScanNext]_vars

SpecTask == TaskStart /\ [][TaskNext]_vars

SpecGen == GenStart /\ [][GenNext]_vars

\* the run under fair scheduling: the client's own steps and the timers
\* of the run happen; the Deployment Backend may never answer
SpecGenFair ==
    /\ GenStart
    /\ [][GenNext]_vars
    /\ WF_vars(GenClientStep)
    /\ WF_vars(GenDeployTimerFires)

SpecDisc == DiscBegin /\ [][DiscNext]_vars

\* discovery under fair scheduling: every callback that is due runs
SpecDiscFair == DiscBegin /\ [][DiscNext]_vars /\ WF_vars(DiscNext)

SpecSel == SelStart /\ [][SelNext]_vars

SpecBdir == BdirStart /\ [][BdirNext]_vars

SpecCm == CmStart /\ [][CmNext]_vars

Init ==
    ScanStart \/ TaskStart \/ GenStart \/ DiscBegin \/ SelStart \/ BdirStart
        \/ CmStart

Next ==
    ScanNext \/ TaskNext \/ GenNext \/ DiscNext \/ SelNext \/ BdirNext \/ CmNext

Spec == Init /\ [][Next]_vars

(***************************************************************************)
(* Properties                                                              *)
(***************************************************************************)
\* C1: during the subnet probe at most 50 device-info requests are
\* outstanding (issued and not yet settled) at any instant.
ScanAtMostChunkOutstanding == ScanOutstanding <= chunkSize

\* C2: once the 5 s grace period after the graceful signal has run out with
\* the child still running, the child has been sent the forceful kill.
TaskForcefulKillAfterGrace ==
    (task.escalation = "fired" /\ task.child = "running")
        => Includes(task.signals, "SIGKILL")

\* C3: when the timeout monitor is what ended the child, the rejection
\* delivered to the caller is the timed-out one, which generate recognises
\* by its timeout branch.
TaskMonitorReportsTimedOut ==
    (task.result = "rejected" /\ task.endedBy = "monitor")
        => TimeoutBranch(task.message)

\* C4: a generate run ends with exit status zero exactly when every stage
\* succeeded; after a fatal stage failure or a declined fallback offer the
\* exit status is not zero.
GenExitStatusTellsOutcome ==
    gen.pc = "exited" => (gen.exit = <<0>> <=> gen.outcome = "success")

\* C5: in a full deploy after a build, when the timer wins the race the
\* fallback offer is presented, and when the offer is declined the process
\* exits non-zero and the run has written nothing at the output path.
GenDeclinedOfferLeavesNoArtifact ==
    (~gen.packageOnly /\ ~gen.skipBuild /\ gen.raced = "timer")
        => /\ gen.offer # "none"
           /\ gen.offer = "declined"
                  => /\ gen.exit = <<1>>
                     /\ RealFile(gen.outputLocation) \notin gen.written

\* C6: once a stage has failed fatally (or the offer was declined), the run
\* issues no further operation: no build task, rekey, deploy, package
\* creation, copy, unlink or report.
GenNothingIssuedAfterFatal ==
    [][gen.outcome \in {"fatal", "declined"} => gen'.issued = gen.issued]_vars

GenFatalRunEnded ==
    /\ gen.outcome = "fatal"
    /\ gen.pc = "exited"
    /\ Includes(gen.issued, "rekeyDevice")

\* C7: the package-only retry is started only when the race was lost to
\* the timer, not when deployAndSignPackage itself failed, only after an
\* affirmative answer, and at most once.
GenFallbackOnlyAfterTimerWon ==
    /\ gen.pc = "fallbackWait" => gen.raced = "timer"
    /\ gen.pc = "fallbackWait" => gen.offer = "accepted"
    /\ Cardinality({k \in 1..Len(gen.issued) :
                       gen.issued[k] = "createPackage"}) <= 1

\* C11: the credential check returns true only when the device accepts the
\* supplied secret: a device that is reachable but rejects the secret
\* yields false.
SelCredentialCheckTellsSecret ==
    sel.authSuccess = <<TRUE>> => sel.password = <<DeviceSecret>>

\* C12: testDevice never throws, returns true only for a success response
\* of the device-info endpoint and false for every other outcome.
SelTestDeviceTrueOnlyOnSuccess ==
    /\ sel.reachAnswer # <<>> => (~sel.threw /\ sel.isReachable # <<>>)
    /\ sel.isReachable = <<TRUE>> =>
           /\ sel.reachAnswer[1].kind = "response"
           /\ sel.reachAnswer[1].status \in {200, 204}
    /\ (sel.reachAnswer # <<>>
           /\ ~(sel.reachAnswer[1].kind = "response"
                  /\ sel.reachAnswer[1].status \in {200, 204}))
          => sel.isReachable = <<FALSE>>

SelTestDeviceAnswered ==
    /\ sel.isReachable = <<FALSE>>
    /\ sel.reachAnswer[1].kind = "refused"

\* C13: when the artifact of the Deployment Backend already is the file at
\* the output path, however the two paths are spelled, Relocate copies
\* nothing, deletes nothing and leaves the file in place.
GenRelocateSameFileIsNoOp ==
    [][(gen.pc = "relocate" /\ gen'.pc # "relocate"
          /\ RealFile(gen.packagePath[1]) = RealFile(gen.outputLocation))
        => /\ gen'.files = gen.files
           /\ ~Includes(gen'.issued, "copyFileSync")
           /\ ~Includes(gen'.issued, "unlinkSync")]_vars

\* C14: when the artifact path differs from the output path, after
\* Relocate the artifact exists at the output path, and the original is
\* gone exactly when its directory differs from the output directory.
GenRelocateMovesArtifact ==
    [][(gen.pc = "relocate" /\ gen'.pc # "relocate"
          /\ gen.packagePath[1] # gen.outputLocation)
        => /\ RealFile(gen.outputLocation) \in gen'.files
           /\ (RealFile(gen.packagePath[1]) \notin gen'.files)
                  <=> (Dirname(gen.packagePath[1])
                           # Dirname(gen.outputLocation))]_vars

\* C15: validateProject reports every missing item: the manifest when it
\* is missing, the source directory when it is missing or else main.brs
\* when that is missing, and valid is true exactly when nothing is listed.
GenValidateReportsEveryMissingItem ==
    gen.validation # <<>> =>
        LET v == gen.validation[1]
        IN /\ ~v.manifest
                  <=> Includes(v.errors, "Missing required file: manifest")
           /\ ~v.source
                  <=> Includes(v.errors, "Missing required directory: source")
           /\ (v.source /\ ~v.main)
                  <=> Includes(v.errors,
                               "Missing required file: source/main.brs")
           /\ v.valid <=> v.errors = <<>>
           /\ ~v.valid => gen.outcome = "fatal"

GenValidateMissedBoth ==
    /\ gen.validation # <<>>
    /\ ~gen.validation[1].manifest
    /\ ~gen.validation[1].source
    /\ Len(gen.validation[1].errors) = 2

\* C16: whatever the home request answers, and when it fails, the
\* pre-flight is followed by the build decision and the cleanup by an exit
\* with status zero.
GenHomeNeverAborts ==
    [][/\ (gen.pc = "homeWait" /\ gen'.pc # gen.pc)
           => (gen'.pc = "build" /\ gen'.outcome = "none")
       /\ (gen.pc = "cleanupWait" /\ gen'.pc # gen.pc)
           => (gen'.pc = "exited" /\ gen'.exit = <<0>>)]_vars

GenHomeFailedTwice ==
    /\ gen.home = "catch"
    /\ gen.cleanupHome \in {"catch", "warn", "restricted"}
    /\ gen.exit = <<0>>

\* the positions of an operation in the log of issued operations
Positions(op) == {k \in 1..Len(gen.issued) : gen.issued[k] = op}

\* the requests to the Deployment Backend
BackendRequests == {"rekeyDevice", "deployAndSignPackage", "createPackage"}

\* the stage an issued operation belongs to, in pipeline order; the first
\* home request is the pre-flight, a later one the cleanup
StageRank(k) ==
    LET op == gen.issued[k]
    IN IF op = "home" THEN (IF k = 1 THEN 1 ELSE 11)
       ELSE IF op = "executeTask" THEN 2
       ELSE IF op = "validate" THEN 4
       ELSE IF op = "packageCheck" THEN 5
       ELSE IF op = "rekeyDevice" THEN 7
       ELSE IF op \in {"deployAndSignPackage", "createPackage"} THEN 8
       ELSE IF op \in {"copyFileSync", "unlinkSync"} THEN 9
       ELSE 10

StoppedAtBuildDecision ==
    /\ gen.pc \in {"home", "homeWait", "build", "returned", "exited"}
    /\ gen.pc \in {"returned", "exited"} => gen.outcome = "fatal"
    /\ Positions("validate") = {}

\* C21: with the build not skipped, no reuse requested and a pre-selected
\* label that is not in the catalog, the run fails fatally and never gets
\* to ConfigResolve, whatever the catalog is, the empty one included.
GenUnknownBuildTaskIsFatal ==
    (~gen.skipBuild /\ ~gen.useExistingBuild /\ gen.buildTask # <<>>
       /\ FindTask(gen.allTasks, gen.buildTask) = <<>>)
        => StoppedAtBuildDecision

\* C22 as stated: with reuse of an existing build requested and no build
\* present, the run fails fatally at the build decision, runs no task and
\* enters no later stage; with a build present no task runs and the run
\* goes on to ConfigResolve.
GenReuseNeedsExistingBuild ==
    gen.useExistingBuild =>
        /\ Positions("executeTask") = {}
        /\ ~gen.buildPresent => StoppedAtBuildDecision
        /\ (gen.buildPresent /\ gen.pc \in {"returned", "exited"})
               => Positions("validate") # {}

\* C22 as amended: the same, for a run whose build is not skipped.
GenReuseNeedsExistingBuildUnlessSkipped ==
    (gen.useExistingBuild /\ ~gen.skipBuild) =>
        /\ Positions("executeTask") = {}
        /\ ~gen.buildPresent => StoppedAtBuildDecision
        /\ (gen.buildPresent /\ gen.pc \in {"returned", "exited"})
               => Positions("validate") # {}

GenReuseRefused ==
    /\ gen.useExistingBuild
    /\ ~gen.skipBuild
    /\ ~gen.buildPresent
    /\ gen.pc = "exited"

\* the result matches the way the child, once closed, has ended
TaskResultMatchesTermination ==
    (task.child = "closed" /\ task.endedBy # "spawn") =>
        /\ task.result # "pending"
        /\ task.code = <<0>> =>
               task.result = "resolved"
        /\ (task.code # <<>> /\ task.code # <<0>>) =>
               /\ task.result = "rejected"
               /\ task.message = ExitCodeMessage(task.label, task.code[1])
               /\ Includes(task.message, ToString(task.code[1]))
        /\ task.code = <<>> =>
               /\ task.result = "rejected"
               /\ task.message = TerminatedMessage(task.label)

\* C23: executeTask resolves for exit code 0, rejects carrying n for a
\* non-zero exit code n, rejects as terminated for a child ended by a
\* signal, and the result, once delivered, is the only one.
TaskMapsTerminationToOneResult ==
    [][/\ TaskResultMatchesTermination'
       /\ task.result # "pending" =>
              (task'.result = task.result /\ task'.message = task.message)
      ]_vars

TaskFailedWithExitCode ==
    /\ task.child = "closed"
    /\ task.code = <<1>>
    /\ task.result = "rejected"

\* C29: --first-device without its companion flag is reported as an
\* error and nothing else is done: no discovery, no request to a device,
\* no device for the pipeline and no configuration write.
SelFirstDeviceNeedsCompanion ==
    (sel.autoSelectFirst /\ ~sel.companion /\ sel.pc # "flags") =>
        /\ sel.error
        /\ sel.pc = "done"
        /\ sel.result = "error"
        /\ sel.calls = <<>>
        /\ sel.saved = <<>>

SelFirstDeviceRefused ==
    /\ sel.autoSelectFirst
    /\ ~sel.companion
    /\ sel.command = "discover"
    /\ sel.error

\* C30: during a full deploy a heartbeat is emitted only while the
\* deploy/timeout race is unresolved, whichever side resolves it (deploy
\* success, deploy error, timer expiry), and as long as the race is
\* unresolved the 10-second heartbeat interval is set.
GenHeartbeatOnlyDuringRace ==
    [][/\ gen'.beats # gen.beats =>
              (gen.pc = "race" /\ gen.raced = "none"
                 /\ gen'.beats = gen.beats + 1)
       /\ gen'.pc = "race" => gen'.heartbeat = "active"
       /\ gen'.raced # "none" => gen'.heartbeat # "active"
      ]_vars

GenHeartbeatStoppedByTimer ==
    /\ gen.raced = "timer"
    /\ gen.deploy = "running"
    /\ gen.beats > 0
    /\ gen.heartbeat = "cleared"

\* the candidates of getBuildDirectory in the order it examines them
CandidateOrder ==
    <<"buildConfig.stagingFolderPath", "buildConfig.outDir",
      "bsConfig.stagingDir", "bsConfig.outDir">>
        \o commonBuildDirs \o <<"projectRootDir">>

CandidatePosition(c) ==
    CHOOSE k \in 1..Len(CandidateOrder) : CandidateOrder[k] = c

\* the directory the candidate names exists
CandidateExists(in, c) ==
    IF c = "buildConfig.stagingFolderPath"
    THEN in.buildConfig /\ in.stagingFolderPath = "exists"
    ELSE IF c = "buildConfig.outDir"
    THEN in.buildConfig /\ in.outDir = "exists"
    ELSE IF c = "bsConfig.stagingDir"
    THEN in.bsConfig /\ in.stagingDir = "exists"
    ELSE IF c = "bsConfig.outDir"
    THEN in.bsConfig /\ in.bsOutDir = "exists"
    ELSE IF c = "projectRootDir" THEN TRUE
    ELSE c \in in.dirs

\* the four priorities: explicit staging path, declared output directory,
\* conventional build directory name, project root
PriorityClass(c) ==
    IF c \in {"buildConfig.stagingFolderPath", "bsConfig.stagingDir"} THEN 1
    ELSE IF c \in {"buildConfig.outDir", "bsConfig.outDir"} THEN 2
    ELSE IF c = "projectRootDir" THEN 4
    ELSE 3

\* C25 as stated: getBuildDirectory returns an existing candidate of the
\* highest priority among the existing ones, the priorities being explicit
\* staging path, declared output directory, conventional build directory
\* name, project root.
BdirReturnsHighestPriorityClass ==
    bdir.pc = "done" =>
        /\ CandidateExists(bdir.in, bdir.result)
        /\ \A k \in 1..Len(CandidateOrder) :
               CandidateExists(bdir.in, CandidateOrder[k]) =>
                   PriorityClass(bdir.result)
                       <= PriorityClass(CandidateOrder[k])

\* C25 as amended: getBuildDirectory returns the first existing candidate
\* in the order launch.json stagingFolderPath, launch.json outDir,
\* bsconfig.json stagingDir, bsconfig.json outDir, .build, dist, build,
\* out, .out, project root.
BdirReturnsFirstExistingCandidate ==
    bdir.pc = "done" =>
        /\ CandidateExists(bdir.in, bdir.result)
        /\ \A k \in 1..Len(CandidateOrder) :
               CandidateExists(bdir.in, CandidateOrder[k]) =>
                   CandidatePosition(bdir.result) <= k

BdirOutDirBeforeBsconfigStaging ==
    /\ bdir.pc = "done"
    /\ bdir.in.stagingFolderPath = "missing"
    /\ bdir.in.outDir = "exists"
    /\ bdir.in.stagingDir = "exists"
    /\ bdir.result = "buildConfig.outDir"

\* the names of a list of projects
NamesOf(projects) == {projects[k].name : k \in 1..Len(projects)}

\* the projects of a list without those of the given name
Without(projects, name) == SelectSeq(projects, LAMBDA p : p.name # name)

\* C27: removeProject(name) returns true, removes the project of that
\* name and saves the configuration when there is such a project; else it
\* returns false and leaves the in-memory list and the file as they are.
CmRemoveProjectContract ==
    cm.removed # <<>> =>
        LET c == cm.removed[1]
        IN IF c.name \in NamesOf(c.before.config.projects)
           THEN /\ c.returned
                /\ c.after.config.projects
                       = Without(c.before.config.projects, c.name)
                /\ c.after.config.rokuDevice = c.before.config.rokuDevice
                /\ c.after.file = <<c.after.config>>
           ELSE /\ ~c.returned
                /\ c.after.config = c.before.config
                /\ c.after.file = c.before.file

CmRemoveProjectMissed ==
    /\ cm.op = "removeProject"
    /\ cm.removed # <<>>
    /\ ~cm.removed[1].returned
    /\ cm.removed[1].name = <<"a">>
    /\ Len(cm.config.projects) = MaxProjects

\* C28: after any sequence of add, edit and remove commands the names of
\* the projects in the configuration file are pairwise distinct and
\* getProject(name) identifies at most one project.
CmNamesPairwiseDistinct ==
    LET projects == cm.config.projects
    IN /\ cm.file # <<>> => cm.file[1] = cm.config
       /\ \A i, j \in 1..Len(projects) :
              projects[i].name = projects[j].name => i = j
       /\ \A name \in NameInputs :
              Cardinality({k \in 1..Len(projects) :
                               projects[k].name = name}) <= 1

CmRenamedBesideAnother ==
    /\ cm.op = "edit"
    /\ cm.outcome = "renamed"
    /\ Len(cm.config.projects) = MaxProjects

\* C26: from the pre-flight home navigation to the end of a generate run
\* no step changes the configuration file, neither its projects nor its
\* device, whether the run succeeds or fails.
GenLeavesConfigurationAlone ==
    [][gen'.config = gen.config]_vars

GenSucceededWithUnsavedDevice ==
    /\ gen.pc = "exited"
    /\ gen.outcome = "success"
    /\ gen.config.rokuDevice = DefaultConfig.rokuDevice
    /\ gen.config.projects # <<>>

\* C31: when deployAndSignPackage settles before the deploy timeout, the
\* timeout timer is cancelled: once the race is decided by the deploy, no
\* timer of the race is pending.
GenLosingTimerCancelled ==
    gen.raced \in {"deploy", "error"} => gen.timer # "armed"

\* C32: when the fallback createPackage has been started after a deploy
\* timeout, the timed-out deployAndSignPackage is not running any more, so
\* no two operations of the Deployment Backend are in progress at once.
GenFallbackNeverBesideDeploy ==
    gen.offer = "accepted" => gen.deploy # "running"

\* C33: every run of generate eventually ends, even when the Deployment
\* Backend never answers a request.
GenRunTerminates ==
    <>(gen.pc = "exited")

\* the addresses of a list of devices
Ips(devices) == {devices[k].ip : k \in 1..Len(devices)}

\* the record of an address in a list of devices that has it
RecordOf(devices, ip) ==
    devices[CHOOSE k \in 1..Len(devices) : devices[k].ip = ip]

\* the values the two strategies contributed: nothing when rejected
SsdpFound == IF disc.ssdp = "fulfilled" THEN disc.ssdpValue ELSE <<>>

NetFound == IF disc.net = "fulfilled" THEN disc.netValue ELSE <<>>

\* C34: every multicast reply that arrives within the discovery window,
\* advertises the service type and whose device-info fetch succeeds is in
\* the result of the multicast probe, also when the fetch completes after
\* the window has closed.
DiscEveryFetchedReplyReturned ==
    disc.ssdp = "fulfilled" => Ips(disc.devices) \subseteq Ips(disc.ssdpValue)

\* C35: discoverDevices always completes, whatever the network and the
\* multicast socket do, a socket error or a bind failure included.
DiscAlwaysCompletes ==
    <>(disc.pc = "done")

\* the prefixes of the machine's own external IPv4 addresses
OwnPrefixes ==
    {SubSeq(scan.interfaces[k].address, 1, 3) :
        k \in {j \in 1..Len(scan.interfaces) :
                   /\ scan.interfaces[j].family = "IPv4"
                   /\ ~scan.interfaces[j].internal}}

\* C36: in the list of prefixes the subnet probe scans, every prefix of an
\* own interface precedes every fixed prefix that is not one of an own
\* interface, also when an own prefix is one of the fixed ranges, and no
\* prefix appears twice.
ScanOwnPrefixesFirst ==
    scan.pc # "idle" =>
        /\ \A i, j \in 1..Len(scan.networkRanges) :
               (scan.networkRanges[i] \in OwnPrefixes
                  /\ scan.networkRanges[j] \notin OwnPrefixes) => i < j
        /\ \A i, j \in 1..Len(scan.networkRanges) :
               scan.networkRanges[i] = scan.networkRanges[j] => i = j

\* C37: within one run of generate every request to the device goes to
\* the same address, every request that carries credentials carries the
\* same device password and the signing key of the same project, and
\* neither the device nor the project of the run changes.
GenOneDeviceOneProject ==
    [][/\ gen'.device = gen.device
       /\ gen'.project = gen.project
       /\ \A k \in 1..Len(gen'.requests) :
              LET r == gen'.requests[k]
              IN /\ r.host = gen.device.ip
                 /\ r.op # "home" =>
                        /\ r.password = gen.device.password
                        /\ r.signingPassword = gen.project[1].signKey
      ]_vars

GenFiveRequestsOneDevice ==
    /\ gen.pc = "exited"
    /\ gen.outcome = "success"
    /\ Len(gen.requests) = 5
    /\ gen.config.rokuDevice # gen.device

\* the positions of a call in the calls of the device selection
CallPositions(op) == {k \in 1..Len(sel.calls) : sel.calls[k] = op}

\* the command has handed a discovered device to the pipeline or has
\* written one to the configuration
SelDeviceTaken == sel.result = "device" \/ sel.saved # <<>>

\* C38: with generate --discover and discover --configure a discovered
\* device is used for the pipeline or written to the configuration only
\* after it was selected, then testDevice returned true, then
\* testConnection returned true; when discovery finds nothing, the
\* selection is cancelled or a test fails, no device goes to the pipeline
\* and none is written.
SelDeviceTakenOnlyAfterBothTests ==
    /\ SelDeviceTaken =>
           /\ sel.selected # <<>>
           /\ sel.isReachable = <<TRUE>>
           /\ sel.authSuccess = <<TRUE>>
           /\ \E i, j, k \in 1..Len(sel.calls) :
                  /\ i < j /\ j < k
                  /\ CallPositions("discoverDevices") = {i}
                  /\ CallPositions("testDevice") = {j}
                  /\ CallPositions("testConnection") = {k}
                  /\ \A w \in CallPositions("setRokuDevice") : k < w
           /\ sel.saved # <<>> =>
                  /\ sel.saved[1].ip = sel.selected[1]
                  /\ sel.saved[1].password = sel.password[1]
    /\ (sel.pc = "done"
          /\ \/ sel.result = "null"
             \/ sel.selected = <<>>
             \/ sel.isReachable # <<TRUE>>
             \/ sel.authSuccess # <<TRUE>>)
           => (~SelDeviceTaken /\ CallPositions("setRokuDevice") = {})

SelDiscoveredDeviceSaved ==
    /\ sel.command = "discover"
    /\ sel.result = "saved"
    /\ sel.saved # <<>>
    /\ ~sel.autoSelectFirst

\* the names of the model in case-sensitive lexicographic order: upper
\* case letters precede lower case letters
CaseSensitiveOrder ==
    << <<"Den">>, <<"Roku-", "10.0.0.2">>, <<"Roku-", "10.0.0.3">>,
       <<"attic">> >>

CaseSensitiveRank(name) ==
    CHOOSE k \in 1..Len(CaseSensitiveOrder) : CaseSensitiveOrder[k] = name

\* C24: the list discoverDevices returns is in case-sensitive
\* lexicographic order of the display names.
DiscSortedCaseSensitive ==
    disc.pc = "done" =>
        \A i, j \in 1..Len(disc.result) :
            i < j => CaseSensitiveRank(disc.result[i].name)
                         <= CaseSensitiveRank(disc.result[j].name)

\* C8: discoverDevices returns exactly one record per address of the union
\* of both result sets; for an address in both, every field of the subnet
\* record has the subnet value and every other field keeps the multicast
\* value.
DiscMergeIsUnionSubnetWins ==
    disc.pc = "done" =>
        /\ Ips(disc.result) = Ips(SsdpFound) \cup Ips(NetFound)
        /\ Len(disc.result) = Cardinality(Ips(disc.result))
        /\ \A ip \in Ips(disc.result) :
            LET r == RecordOf(disc.result, ip)
            IN IF ip \in Ips(NetFound)
               THEN LET b == RecordOf(NetFound, ip)
                    IN /\ \A f \in DOMAIN b : r[f] = b[f]
                       /\ ip \in Ips(SsdpFound) =>
                              \A f \in DOMAIN RecordOf(SsdpFound, ip)
                                          \ DOMAIN b :
                                  r[f] = RecordOf(SsdpFound, ip)[f]
               ELSE r = RecordOf(SsdpFound, ip)

DiscOverlapMerged ==
    /\ disc.pc = "done"
    /\ \E ip \in Ips(SsdpFound) \cap Ips(NetFound) :
           RecordOf(SsdpFound, ip).name # RecordOf(NetFound, ip).name

\* C9: discoverDevices never fails on network-level failures: whatever
\* fails, it does not throw, it returns the devices the strategies found,
\* and the empty list when every probe failed.
DiscNeverFailsOnProbeFailures ==
    /\ ~disc.threw
    /\ disc.pc = "done" =>
           /\ Ips(disc.result) = Ips(SsdpFound) \cup Ips(NetFound)
           /\ (SsdpFound = <<>> /\ NetFound = <<>>) => disc.result = <<>>

DiscReturnedDespiteRejection ==
    /\ disc.pc = "done"
    /\ disc.ssdp = "rejected"
    /\ Len(disc.result) > 0

\* C10 as stated: after a failure to bind the multicast socket, once
\* nothing more can happen, the caller has been given a discovery error.
DiscBindFailureSurfaced ==
    (disc.ssdp = "failed" /\ ~ENABLED DiscNext) => disc.threw

\* C10 as amended: a systemic error of a strategy (a bind failure, a
\* rejected strategy) is never surfaced: discoverDevices does not throw.
DiscSystemicErrorNotSurfaced ==
    (disc.ssdp \in {"failed", "rejected"} \/ disc.net = "rejected")
        => ~disc.threw

DiscBindFailedSilently ==
    /\ disc.ssdp = "failed"
    /\ disc.net = "fulfilled"
    /\ ~disc.threw

====
